---- MODULE Spec2Model ----
(***************************************************************************)
(* Function combinators of src/src/arrays/index.ts: compose,              *)
(* pipeFunctions, curry, promisify and chainAsync.                        *)
(*                                                                         *)
(* The functions handed to the combinators are opaque.  A call of the     *)
(* supplied function number f with the argument list a returns the        *)
(* uninterpreted term f(a), so two results are equal only when the same   *)
(* functions were applied to the same arguments in the same nesting.      *)
(* Values are flat sequences of integers in prefix notation:              *)
(*   the atom k                  is <<0, k>>                              *)
(*   the term f(a1, ..., an)     is <<f, n>> \o a1 \o ... \o an           *)
(***************************************************************************)
EXTENDS Integers, Sequences, FiniteSets, TLC

VARIABLES
    \* compose / pipeFunctions
    cfOp,        \* "none", "compose" or "pipeFunctions": the combinator called
    cfFns,       \* the rest parameter fns: a sequence of function numbers
    cfOut,       \* what the combinator call produced: a callable or a TypeError
    cfArgs,      \* the arguments the composed callable was invoked with
    cfCalls,     \* the calls of supplied functions, in order, with their arguments
    cfResult,    \* the value the composed callable returned
    \* curry
    cuPhase,     \* "idle", "partial" (a bound callable is held) or "done" (fn was called)
    cuArity,     \* the arity parameter
    cuArgs,      \* the rest parameter args of the latest call of curry
    cuGroups,    \* history: the argument groups supplied so far, one per call
    cuCalls,     \* the calls of fn, each with its argument list
    cuResult,    \* the value returned by the call that called fn
    \* promisify
    prPhase,     \* "idle", "executing" (fn runs inside the executor), "returned" or "threw"
    prArgs,      \* the arguments of the call of the promisified function
    prFnCalls,   \* the calls of fn, each with its argument list
    prState,     \* the promise: "pending", "fulfilled" or "rejected"
    prValue,     \* the value the promise settled with
    prCbCount,   \* how often the completion callback has been invoked
    prLastCb,    \* err and result of the latest invocation of the completion callback
    \* chainAsync
    chPhase,     \* the call of chainAsync: "idle", "running", "returned" or "threw"
    chLen,       \* fns.length
    chCurr,      \* curr
    chStack,     \* the steps on the call stack, innermost last
    chRoot,      \* what the call stack stands on: "none", "chainAsync" or "callback"
    chExc,       \* an exception (a TypeError thrown by next, or one thrown by a
                 \* step) is travelling up the call stack
    chStartLog,  \* history: the steps called, in order
    chStartedBy, \* history: per step, whose call of next called it
    chInvoked,   \* history: per step, how often it has called next
    chErrors,    \* history: TypeErrors thrown by next
    chUncaught,  \* history: TypeErrors that left an asynchronous callback uncaught
    \* runPromisesInSeries
    sePhase,     \* the call of runPromisesInSeries: "idle", "returned" or "threw"
    seLen,       \* ps.length
    sePromises,  \* the promises of the chain: Promise.resolve(), then one per p.then(next);
                 \* the last one is the promise returned
    seDeferred,  \* per function of ps, the deferred result it produced
    seCalls,     \* history: the calls of functions of ps, in order, with their argument
    \* flattenDepth
    flPhase,     \* "idle" or "done"
    flArr,       \* the parameter arr
    flDepth,     \* the argument depth, or FlOmitted
    flResult,    \* the value the call returned
    \* pull
    puPhase,     \* "idle" or "done"
    puOrig,      \* history: the elements of arr before the call
    puArgs,      \* the rest parameter args
    puArr,       \* the elements of arr
    \* curry, one partial application applied several times
    csPhase,     \* "idle" or "held" (a partial application is held)
    csArity,     \* the arity parameter
    csCaptured,  \* the arguments bound in the partial application held
    csOriginal,  \* history: the arguments bound when it was made
    csCount,     \* how often it has been called
    csLastNew,   \* the arguments of its latest call
    csLastArgs,  \* the rest parameter args curry received from its latest call
    csCalls      \* the calls of fn, each with its argument list

cfVars == <<cfOp, cfFns, cfOut, cfArgs, cfCalls, cfResult>>
cuVars == <<cuPhase, cuArity, cuArgs, cuGroups, cuCalls, cuResult>>
prVars == <<prPhase, prArgs, prFnCalls, prState, prValue, prCbCount, prLastCb>>
chVars == <<chPhase, chLen, chCurr, chStack, chRoot, chExc, chStartLog, chStartedBy,
            chInvoked, chErrors, chUncaught>>
seVars == <<sePhase, seLen, sePromises, seDeferred, seCalls>>
flVars == <<flPhase, flArr, flDepth, flResult>>
puVars == <<puPhase, puOrig, puArgs, puArr>>
csVars == <<csPhase, csArity, csCaptured, csOriginal, csCount, csLastNew, csLastArgs, csCalls>>

vars == <<cfVars, cuVars, prVars, chVars, seVars, flVars, puVars, csVars>>

\* what an operation of one combinator leaves alone: the other combinators
cfOthers == <<cuVars, prVars, chVars, seVars, flVars, puVars, csVars>>
cuOthers == <<cfVars, prVars, chVars, seVars, flVars, puVars, csVars>>
prOthers == <<cfVars, cuVars, chVars, seVars, flVars, puVars, csVars>>
chOthers == <<cfVars, cuVars, prVars, seVars, flVars, puVars, csVars>>
seOthers == <<cfVars, cuVars, prVars, chVars, flVars, puVars, csVars>>
flOthers == <<cfVars, cuVars, prVars, chVars, seVars, puVars, csVars>>
puOthers == <<cfVars, cuVars, prVars, chVars, seVars, flVars, csVars>>
csOthers == <<cfVars, cuVars, prVars, chVars, seVars, flVars, puVars>>

----------------------------------------------------------------------------
(* Bounds *)

NumFns == 3        \* supplied functions are numbered 1..NumFns
MaxFns == 3        \* longest list of functions handed to compose / pipeFunctions
NumAtoms == 2      \* argument values are the atoms 1..NumAtoms
MaxArgs == 2       \* longest argument list of one call
MaxArity == 3      \* largest arity handed to curry
MaxGroups == 4     \* most calls along one curry chain, the call of curry included
MaxCallbacks == 2  \* most invocations of one completion callback
MaxSteps == 3      \* longest list of steps handed to chainAsync
MaxInvocations == 2 \* most calls of next by one step
MaxSeries == 3     \* longest list of functions handed to runPromisesInSeries
NumValues == 3     \* deferred results fulfil with the values 1..NumValues
FlMaxLen == 2      \* longest array, at each level of nesting, handed to flattenDepth
FlMaxDepth == 3    \* largest depth handed to flattenDepth
PuMaxLen == 3      \* longest array handed to pull
PuMaxArgs == 2     \* most values handed to pull
MaxApplications == 3 \* most calls of one partial application

----------------------------------------------------------------------------
(* Values *)

Atom(k) == <<0, k>>

Atoms == {Atom(k) : k \in 1..NumAtoms}

RECURSIVE Concat(_)
Concat(ss) == IF ss = <<>> THEN <<>> ELSE Head(ss) \o Concat(Tail(ss))

\* the value returned by the supplied function f called with the arguments a
Term(f, a) == <<f, Len(a)>> \o Concat(a)

SeqsUpTo(S, n) == UNION {[1..k -> S] : k \in 0..n}

ArgLists == SeqsUpTo(Atoms, MaxArgs)

NoValue == <<>>

----------------------------------------------------------------------------
(* compose / pipeFunctions *)

\* a supplied function as a callable
Fn(f) == [kind |-> "fn", id |-> f, outer |-> <<>>, inner |-> <<>>]

\* A closure built by a reducer: called with args, it calls inner with all of
\* args and then outer with the one value inner returned.

\* compose's reducer: (f, g) => (...args) => f(g(...args))
ComposeReducerSwapped(f, g) == [kind |-> "closure", id |-> 0, outer |-> g, inner |-> f]
ComposeReducer(f, g) == [kind |-> "closure", id |-> 0, outer |-> f, inner |-> g]

\* pipeFunctions' reducer: (f, g) => (...args) => g(f(...args))
PipeReducerSwapped(f, g) == [kind |-> "closure", id |-> 0, outer |-> f, inner |-> g]
PipeReducer(f, g) == [kind |-> "closure", id |-> 0, outer |-> g, inner |-> f]

Reducer(op, f, g) == IF op = "compose" THEN ComposeReducer(f, g) ELSE PipeReducer(f, g)

TypeError == [kind |-> "TypeError", id |-> 0, outer |-> <<>>, inner |-> <<>>]

\* Array.prototype.reduce without an initial value, from the accumulator acc
\* over the remaining elements
RECURSIVE ReduceFrom(_, _, _)
ReduceFrom(op, acc, rest) ==
    IF rest = <<>> THEN acc
    ELSE ReduceFrom(op, Reducer(op, acc, Fn(Head(rest))), Tail(rest))

\* fns.reduce(reducer): an empty array and no initial value is a TypeError,
\* a single element is returned without calling the reducer
ReduceWithInitialValue(op, fns) ==
    IF fns = <<>> THEN Fn(0) ELSE ReduceFrom(op, Fn(Head(fns)), Tail(fns))
Reduce(op, fns) ==
    IF fns = <<>> THEN TypeError ELSE ReduceFrom(op, Fn(Head(fns)), Tail(fns))

\* calling a callable c with the argument list a: the value returned and the
\* calls of supplied functions made on the way, in order
RECURSIVE Apply(_, _)
Apply(c, a) ==
    IF c.kind = "fn"
    THEN [val |-> Term(c.id, a), calls |-> <<[fn |-> c.id, args |-> a]>>]
    ELSE LET inner == Apply(c.inner, a)
             outer == Apply(c.outer, <<inner.val>>)
         IN  [val |-> outer.val, calls |-> inner.calls \o outer.calls]

CfInit ==
    /\ cfOp = "none"
    /\ cfFns = <<>>
    /\ cfOut = TypeError
    /\ cfArgs = <<>>
    /\ cfCalls = <<>>
    /\ cfResult = NoValue

\* compose(...fns)
Compose(fns) ==
    /\ cfOp = "none"
    /\ cfOp' = "compose"
    /\ cfFns' = fns
    /\ cfOut' = Reduce("compose", fns)
    /\ UNCHANGED <<cfArgs, cfCalls, cfResult>>
    /\ UNCHANGED cfOthers

\* pipeFunctions(...fns)
PipeFunctions(fns) ==
    /\ cfOp = "none"
    /\ cfOp' = "pipeFunctions"
    /\ cfFns' = fns
    /\ cfOut' = Reduce("pipeFunctions", fns)
    /\ UNCHANGED <<cfArgs, cfCalls, cfResult>>
    /\ UNCHANGED cfOthers

\* the callable returned by compose / pipeFunctions is invoked with args
Invoke(args) ==
    /\ cfOp # "none"
    /\ cfOut.kind # "TypeError"
    /\ cfResult = NoValue
    /\ LET r == Apply(cfOut, args)
       IN  /\ cfResult' = r.val
           /\ cfCalls' = r.calls
    /\ cfArgs' = args
    /\ UNCHANGED <<cfOp, cfFns, cfOut>>
    /\ UNCHANGED cfOthers

FnLists == SeqsUpTo(1..NumFns, MaxFns)

CfNext ==
    \/ \E fns \in FnLists : Compose(fns)
    \/ \E fns \in FnLists : PipeFunctions(fns)
    \/ \E args \in ArgLists : Invoke(args)

----------------------------------------------------------------------------
(* curry *)

\* the function handed to curry
CurriedFn == 1

\* arity <= args.length ? fn(...args) : curry.bind(null, fn, arity, ...args)
EnoughArgsStrict(arity, args) == arity < Len(args)
EnoughArgs(arity, args) == arity <= Len(args)

\* a call of the callable made by curry.bind(null, fn, arity, ...bound) with the
\* arguments new calls curry(fn, arity, ...bound, ...new)
BoundCallArgsPrepended(bound, new) == new \o bound
BoundCallArgs(bound, new) == bound \o new

CuInit ==
    /\ cuPhase = "idle"
    /\ cuArity = 0
    /\ cuArgs = <<>>
    /\ cuGroups = <<>>
    /\ cuCalls = <<>>
    /\ cuResult = NoValue

\* the body of curry with the rest parameter args
CurryBody(arity, args) ==
    /\ cuArgs' = args
    /\ IF EnoughArgs(arity, args)
       THEN /\ cuPhase' = "done"
            /\ cuCalls' = Append(cuCalls, args)
            /\ cuResult' = Term(CurriedFn, args)
       ELSE /\ cuPhase' = "partial"
            /\ UNCHANGED <<cuCalls, cuResult>>

\* curry(fn, arity, ...args)
Curry(arity, args) ==
    /\ cuPhase = "idle"
    /\ cuArity' = arity
    /\ cuGroups' = <<args>>
    /\ CurryBody(arity, args)
    /\ UNCHANGED cuOthers

\* the partial application held is called with the arguments new
CallPartial(new) ==
    /\ cuPhase = "partial"
    /\ Len(cuGroups) < MaxGroups
    /\ cuGroups' = Append(cuGroups, new)
    /\ CurryBody(cuArity, BoundCallArgs(cuArgs, new))
    /\ UNCHANGED cuArity
    /\ UNCHANGED cuOthers

CuNext ==
    \/ \E arity \in 0..MaxArity, args \in ArgLists : Curry(arity, args)
    \/ \E new \in ArgLists : CallPartial(new)

----------------------------------------------------------------------------
(* promisify *)

\* JavaScript values handed to the completion callback, by name.  The first
\* six are the falsy ones; E1 and E2 are error objects, R1 and R2 results
\* (plain values, not thenables).
JsFalsy == {"null", "undefined", "false", "0", "NaN", "''"}
ErrValues == {"null", "undefined", "false", "0", "''", "E1", "E2"}
ResultValues == {"undefined", "R1", "R2"}
Thrown == {"E1", "E2"}

\* the condition of err ? ... : ...
ToBoolean(v) == v \notin JsFalsy

\* the completion callback among fn's arguments
CompletionCallback == <<0, 0>>

\* fn(...args, callback)
FnArguments(args) == Append(args, CompletionCallback)

\* (err, result) => (err ? reject(err) : resolve(result))
CallbackOutcomeResultRejected(err, result) ==
    IF ToBoolean(err) THEN [state |-> "rejected", value |-> result]
    ELSE [state |-> "fulfilled", value |-> result]
CallbackOutcomeErrResolved(err, result) ==
    IF ToBoolean(err) THEN [state |-> "rejected", value |-> err]
    ELSE [state |-> "fulfilled", value |-> err]
CallbackOutcome(err, result) ==
    IF ToBoolean(err) THEN [state |-> "rejected", value |-> err]
    ELSE [state |-> "fulfilled", value |-> result]

\* resolve and reject of new Promise: only the first one called settles the promise
SettleAlways(state, value, outcome) == outcome
Settle(state, value, outcome) ==
    IF state = "pending" THEN outcome ELSE [state |-> state, value |-> value]

PrInit ==
    /\ prPhase = "idle"
    /\ prArgs = <<>>
    /\ prFnCalls = <<>>
    /\ prState = "pending"
    /\ prValue = "undefined"
    /\ prCbCount = 0
    /\ prLastCb = [err |-> "undefined", result |-> "undefined"]

\* promisify(fn)(...args): the executor of the new promise calls fn
PromisifiedCall(args) ==
    /\ prPhase = "idle"
    /\ prPhase' = "executing"
    /\ prArgs' = args
    /\ prFnCalls' = Append(prFnCalls, FnArguments(args))
    /\ UNCHANGED <<prState, prValue, prCbCount, prLastCb>>
    /\ UNCHANGED prOthers

\* fn, or work fn started, invokes the completion callback with (err, result)
CompletionCallbackInvoked(err, result) ==
    /\ prPhase # "idle"
    /\ prCbCount < MaxCallbacks
    /\ prCbCount' = prCbCount + 1
    /\ prLastCb' = [err |-> err, result |-> result]
    /\ LET s == Settle(prState, prValue, CallbackOutcome(err, result))
       IN  /\ prState' = s.state
           /\ prValue' = s.value
    /\ UNCHANGED <<prPhase, prArgs, prFnCalls>>
    /\ UNCHANGED prOthers

\* fn returns to the executor
FnReturns ==
    /\ prPhase = "executing"
    /\ prPhase' = "returned"
    /\ UNCHANGED <<prArgs, prFnCalls, prState, prValue, prCbCount, prLastCb>>
    /\ UNCHANGED prOthers

\* fn throws e inside the executor: new Promise rejects with e
FnThrows(e) ==
    /\ prPhase = "executing"
    /\ prPhase' = "threw"
    /\ LET s == Settle(prState, prValue, [state |-> "rejected", value |-> e])
       IN  /\ prState' = s.state
           /\ prValue' = s.value
    /\ UNCHANGED <<prArgs, prFnCalls, prCbCount, prLastCb>>
    /\ UNCHANGED prOthers

PrNext ==
    \/ \E args \in ArgLists : PromisifiedCall(args)
    \/ \E err \in ErrValues, result \in ResultValues :
           CompletionCallbackInvoked(err, result)
    \/ FnReturns
    \/ \E e \in Thrown : FnThrows(e)

----------------------------------------------------------------------------
(* chainAsync *)

\* Steps are opaque.  A step runs when next calls it; while it runs, or later
\* from a callback of asynchronous work it started (a timer), it may call next,
\* any number of times.  A TypeError thrown by next travels up the call stack
\* through the steps that called next synchronously; each may catch it.

ChainCaller == -1   \* chainAsync itself, as the one calling next
NotStarted == -2

\* fns[curr++]: the index read, curr being incremented afterwards
PreIncremented(curr) == curr + 1
IndexRead(curr) == curr

\* fns[i] is a function only for 0 <= i < fns.length, undefined otherwise
IsStep(n, i) == i \in 0..(n - 1)

Top(stack) == stack[Len(stack)]
Pop(stack) == SubSeq(stack, 1, Len(stack) - 1)

ChInit ==
    /\ chPhase = "idle"
    /\ chLen = 0
    /\ chCurr = 0
    /\ chStack = <<>>
    /\ chRoot = "none"
    /\ chExc = FALSE
    /\ chStartLog = <<>>
    /\ chStartedBy = <<>>
    /\ chInvoked = <<>>
    /\ chErrors = 0
    /\ chUncaught = 0

\* const next = () => fns[curr++](next), called by invoker with n steps in fns,
\* while the steps of stack are on the call stack
NextCalled(invoker, n, stack, startedBy) ==
    LET i == IndexRead(chCurr)
    IN  /\ chCurr' = chCurr + 1
        /\ IF IsStep(n, i)
           THEN /\ chStack' = Append(stack, i)
                /\ chStartLog' = Append(chStartLog, i)
                /\ chStartedBy' = [startedBy EXCEPT ![i] = invoker]
                /\ UNCHANGED <<chExc, chErrors>>
           ELSE /\ chExc' = TRUE
                /\ chErrors' = chErrors + 1
                /\ chStack' = stack
                /\ chStartedBy' = startedBy
                /\ UNCHANGED chStartLog

\* chainAsync(fns) with n steps: let curr = 0, then next()
ChainAsync(n) ==
    /\ chPhase = "idle"
    /\ chPhase' = "running"
    /\ chLen' = n
    /\ chRoot' = "chainAsync"
    /\ chInvoked' = [i \in 0..(n - 1) |-> 0]
    /\ NextCalled(ChainCaller, n, <<>>, [i \in 0..(n - 1) |-> NotStarted])
    /\ UNCHANGED chUncaught
    /\ UNCHANGED chOthers

\* the step running calls the continuation it received
StepCallsNext ==
    /\ ~chExc
    /\ chStack # <<>>
    /\ LET i == Top(chStack)
       IN  /\ chInvoked[i] < MaxInvocations
           /\ chInvoked' = [chInvoked EXCEPT ![i] = @ + 1]
           /\ NextCalled(i, chLen, chStack, chStartedBy)
    /\ UNCHANGED <<chPhase, chLen, chRoot, chUncaught>>
    /\ UNCHANGED chOthers

\* asynchronous work of step i, started earlier, calls the continuation from
\* its own callback (setTimeout(next, 1000))
CallbackCallsNext(i) ==
    /\ chRoot = "none"
    /\ i \in DOMAIN chStartedBy
    /\ chStartedBy[i] # NotStarted
    /\ chInvoked[i] < MaxInvocations
    /\ chInvoked' = [chInvoked EXCEPT ![i] = @ + 1]
    /\ chRoot' = "callback"
    /\ NextCalled(i, chLen, <<>>, chStartedBy)
    /\ UNCHANGED <<chPhase, chLen, chUncaught>>
    /\ UNCHANGED chOthers

\* the step running returns to the call of next that called it
StepReturnsAndAdvances ==
    /\ ~chExc
    /\ chStack # <<>>
    /\ NextCalled(ChainCaller, chLen, Pop(chStack), chStartedBy)
    /\ UNCHANGED <<chPhase, chLen, chRoot, chInvoked, chUncaught>>
    /\ UNCHANGED chOthers
StepReturns ==
    /\ ~chExc
    /\ chStack # <<>>
    /\ chStack' = Pop(chStack)
    /\ UNCHANGED <<chPhase, chLen, chCurr, chRoot, chExc, chStartLog, chStartedBy,
                   chInvoked, chErrors, chUncaught>>
    /\ UNCHANGED chOthers

\* the outermost call of next returns: chainAsync returns to its caller, or
\* the asynchronous callback ends
RootReturns ==
    /\ ~chExc
    /\ chStack = <<>>
    /\ chRoot # "none"
    /\ chRoot' = "none"
    /\ chPhase' = IF chRoot = "chainAsync" THEN "returned" ELSE chPhase
    /\ UNCHANGED <<chLen, chCurr, chStack, chExc, chStartLog, chStartedBy,
                   chInvoked, chErrors, chUncaught>>
    /\ UNCHANGED chOthers

\* the step running throws an exception of its own and does not catch it: it
\* leaves the step for the call of next that called the step
StepThrows ==
    /\ ~chExc
    /\ chStack # <<>>
    /\ chStack' = Pop(chStack)
    /\ chExc' = TRUE
    /\ UNCHANGED <<chPhase, chLen, chCurr, chRoot, chStartLog, chStartedBy,
                   chInvoked, chErrors, chUncaught>>
    /\ UNCHANGED chOthers

\* the step (or callback) that an exception has reached catches it
StepCatches ==
    /\ chExc
    /\ chStack # <<>> \/ chRoot = "callback"
    /\ chExc' = FALSE
    /\ UNCHANGED <<chPhase, chLen, chCurr, chStack, chRoot, chStartLog, chStartedBy,
                   chInvoked, chErrors, chUncaught>>
    /\ UNCHANGED chOthers

\* the step running does not catch the exception: it leaves the step for the
\* call of next that called the step
StepPropagates ==
    /\ chExc
    /\ chStack # <<>>
    /\ chStack' = Pop(chStack)
    /\ UNCHANGED <<chPhase, chLen, chCurr, chRoot, chExc, chStartLog, chStartedBy,
                   chInvoked, chErrors, chUncaught>>
    /\ UNCHANGED chOthers

\* the exception leaves the outermost call of next: chainAsync has no try, so
\* its caller gets the exception; an asynchronous callback ends uncaught
RootThrows ==
    /\ chExc
    /\ chStack = <<>>
    /\ chRoot # "none"
    /\ chExc' = FALSE
    /\ chRoot' = "none"
    /\ chPhase' = IF chRoot = "chainAsync" THEN "threw" ELSE chPhase
    /\ chUncaught' = IF chRoot = "callback" THEN chUncaught + 1 ELSE chUncaught
    /\ UNCHANGED <<chLen, chCurr, chStack, chStartLog, chStartedBy, chInvoked, chErrors>>
    /\ UNCHANGED chOthers

ChNext ==
    \/ \E n \in 0..MaxSteps : ChainAsync(n)
    \/ StepCallsNext
    \/ \E i \in 0..(MaxSteps - 1) : CallbackCallsNext(i)
    \/ StepReturns
    \/ RootReturns
    \/ StepThrows
    \/ StepCatches
    \/ StepPropagates
    \/ RootThrows

----------------------------------------------------------------------------
(* runPromisesInSeries *)

\* The functions of ps are opaque and numbered 1..ps.length in list order.
\* Called, a function returns a deferred result (a promise), which later
\* fulfils with a value or fails with an error, or it throws.  Values are
\* numbers: 0 stands for undefined, 1..NumValues for results, negative numbers
\* for errors.

SeUndefined == 0
SeValues == 1..NumValues
SeErrors == {-1, -2}

Pending == [state |-> "pending", value |-> SeUndefined]
Fulfilled(v) == [state |-> "fulfilled", value |-> v]
Rejected(e) == [state |-> "rejected", value |-> e]
NotCalled == [state |-> "none", value |-> SeUndefined]
Threw(e) == [state |-> "threw", value |-> e]

\* Promise.resolve(): the initial value of reduce
PromiseResolve == Fulfilled(SeUndefined)

\* p.then(next): next is called with the value p fulfilled with
HandlerArgumentDropped(p) == SeUndefined
HandlerArgument(p) == p.value

\* p.then(next): the promise made by then follows the deferred result q that
\* next returned: pending while q is, then settled as q
FollowNot(q) == Fulfilled(SeUndefined)
Follow(q) == IF q.state = "pending" THEN Pending ELSE q

\* p.then(next) with p rejected: there is no rejection handler, next is not
\* called and the promise made by then is rejected with the same reason
PassRejectionSwallowed(p) == Fulfilled(SeUndefined)
PassRejection(p) == Rejected(p.value)

\* next throws e inside then's job: the promise made by then is rejected with
\* e and nothing reaches a caller
HandlerThrewToCaller(e) == [promise |-> Rejected(e), toCaller |-> TRUE]
HandlerThrew(e) == [promise |-> Rejected(e), toCaller |-> FALSE]

SeInit ==
    /\ sePhase = "idle"
    /\ seLen = 0
    /\ sePromises = <<>>
    /\ seDeferred = <<>>
    /\ seCalls = <<>>

\* the promise returned by runPromisesInSeries
Returned == sePromises[seLen + 1]

\* runPromisesInSeries(ps) with n functions: reduce builds the chain of then
\* calls from Promise.resolve() and returns its last promise; no function of
\* ps is called yet
RunPromisesInSeries(n) ==
    /\ sePhase = "idle"
    /\ sePhase' = "returned"
    /\ seLen' = n
    /\ sePromises' = <<PromiseResolve>> \o [i \in 1..n |-> Pending]
    /\ seDeferred' = [i \in 1..n |-> NotCalled]
    /\ seCalls' = <<>>
    /\ UNCHANGED seOthers

\* the promise before function i is fulfilled and function i not yet called
Ready(i) ==
    /\ sePhase # "idle"
    /\ i \in 1..seLen
    /\ sePromises[i].state = "fulfilled"
    /\ seDeferred[i].state = "none"

\* then's job calls function i, which returns a deferred result, still pending
FunctionCalled(i) ==
    /\ Ready(i)
    /\ seCalls' = Append(seCalls, [fn |-> i, arg |-> HandlerArgument(sePromises[i])])
    /\ seDeferred' = [seDeferred EXCEPT ![i] = Pending]
    /\ sePromises' = [sePromises EXCEPT ![i + 1] = Follow(Pending)]
    /\ UNCHANGED <<sePhase, seLen>>
    /\ UNCHANGED seOthers

\* then's job calls function i, which throws e
FunctionThrows(i, e) ==
    /\ Ready(i)
    /\ seCalls' = Append(seCalls, [fn |-> i, arg |-> HandlerArgument(sePromises[i])])
    /\ seDeferred' = [seDeferred EXCEPT ![i] = Threw(e)]
    /\ sePromises' = [sePromises EXCEPT ![i + 1] = HandlerThrew(e).promise]
    /\ sePhase' = IF HandlerThrew(e).toCaller THEN "threw" ELSE sePhase
    /\ UNCHANGED seLen
    /\ UNCHANGED seOthers

\* the deferred result of function i settles as outcome, and the promise made
\* by then for function i with it
DeferredSettles(i, outcome) ==
    /\ sePhase # "idle"
    /\ i \in 1..seLen
    /\ seDeferred[i].state = "pending"
    /\ seDeferred' = [seDeferred EXCEPT ![i] = outcome]
    /\ sePromises' = [sePromises EXCEPT ![i + 1] = Follow(outcome)]
    /\ UNCHANGED <<sePhase, seLen, seCalls>>
    /\ UNCHANGED seOthers

\* the promise before function i is rejected: function i is skipped
RejectionPasses(i) ==
    /\ sePhase # "idle"
    /\ i \in 1..seLen
    /\ sePromises[i].state = "rejected"
    /\ sePromises[i + 1].state = "pending"
    /\ sePromises' = [sePromises EXCEPT ![i + 1] = PassRejection(sePromises[i])]
    /\ UNCHANGED <<sePhase, seLen, seDeferred, seCalls>>
    /\ UNCHANGED seOthers

Outcomes == {Fulfilled(v) : v \in SeValues} \cup {Rejected(e) : e \in SeErrors}

SeNext ==
    \/ \E n \in 0..MaxSeries : RunPromisesInSeries(n)
    \/ \E i \in 1..MaxSeries : FunctionCalled(i)
    \/ \E i \in 1..MaxSeries, e \in SeErrors : FunctionThrows(i, e)
    \/ \E i \in 1..MaxSeries, outcome \in Outcomes : DeferredSettles(i, outcome)
    \/ \E i \in 1..MaxSeries : RejectionPasses(i)

----------------------------------------------------------------------------
(* Array elements *)

\* An element of an array is a number, a string, a nested array or undefined.
\* A number k and the string of its decimal digits carry the same code k;
\* the strings "a" and "b" carry the codes of LetterCodes, the empty string 0.
Num(k) == [kind |-> "num", code |-> k, items |-> <<>>]
Str(k) == [kind |-> "str", code |-> k, items |-> <<>>]
Arr(items) == [kind |-> "arr", code |-> 0, items |-> items]
Undefined == [kind |-> "undefined", code |-> 0, items |-> <<>>]

Nums == {Num(k) : k \in 1..NumAtoms}

\* Array.isArray(v)
IsArray(v) == v.kind = "arr"

\* a.concat(v): the elements of v when v is an array, v itself otherwise
ConcatValue(a, v) == IF IsArray(v) THEN a \o v.items ELSE Append(a, v)

----------------------------------------------------------------------------
(* flattenDepth *)

\* depth was not passed
FlOmitted == -1

\* depth = 1
DepthOrDefault(depth) == IF depth = FlOmitted THEN 1 ELSE depth

\* flattenDepth's body is a block holding one expression statement and no
\* return: the value of the expression is dropped and the call returns
\* undefined
BlockWithoutReturn(value) == Undefined

RECURSIVE FlattenDepthCall(_, _)
RECURSIVE FlattenDeeper(_, _, _)
RECURSIVE FlattenOnce(_, _)

\* arr.reduce((a, v) => a.concat(Array.isArray(v) ? flattenDepth(v, depth - 1) : v), [])
FlattenDeeper(a, rest, depth) ==
    IF rest = <<>> THEN a
    ELSE LET v == Head(rest)
             w == IF IsArray(v) THEN FlattenDepthCall(v, depth - 1) ELSE v
         IN  FlattenDeeper(ConcatValue(a, w), Tail(rest), depth)

\* arr.reduce((a, v) => a.concat(v), [])
FlattenOnce(a, rest) ==
    IF rest = <<>> THEN a
    ELSE FlattenOnce(ConcatValue(a, Head(rest)), Tail(rest))

\* flattenDepth(arr, depth), depth already defaulted
FlattenDepthCall(arr, depth) ==
    BlockWithoutReturn(
        IF depth # 1 THEN Arr(FlattenDeeper(<<>>, arr.items, depth))
        ELSE Arr(FlattenOnce(<<>>, arr.items)))

FlInit ==
    /\ flPhase = "idle"
    /\ flArr = Arr(<<>>)
    /\ flDepth = FlOmitted
    /\ flResult = Undefined

\* flattenDepth(arr, depth), or flattenDepth(arr) when depth is FlOmitted
FlattenDepth(arr, depth) ==
    /\ flPhase = "idle"
    /\ flPhase' = "done"
    /\ flArr' = arr
    /\ flDepth' = depth
    /\ flResult' = FlattenDepthCall(arr, DepthOrDefault(depth))
    /\ UNCHANGED flOthers

\* the arrays handed to flattenDepth: numbers and arrays of numbers, nested up
\* to two levels, and the array of the documentation's example
FlatArrays == {Arr(s) : s \in SeqsUpTo(Nums, FlMaxLen)}
NestedArrays == {Arr(s) : s \in SeqsUpTo(Nums \cup FlatArrays, FlMaxLen)}
DocExample ==
    Arr(<<Num(1), Arr(<<Num(2)>>),
          Arr(<<Arr(<<Arr(<<Num(3)>>), Num(4)>>), Num(5)>>)>>)

FlNext ==
    \E arr \in NestedArrays \cup {DocExample}, depth \in {FlOmitted} \cup 1..FlMaxDepth :
        FlattenDepth(arr, depth)

----------------------------------------------------------------------------
(* pull *)

LetterCodes == {11, 12}
EmptyString == Str(0)

\* the pieces of v.toString().split(','): a number or a string (without
\* commas) gives its text, an array the pieces of its elements, an empty array
\* the empty string
RECURSIVE Pieces(_)
RECURSIVE PiecesOfAll(_)
Pieces(v) ==
    IF IsArray(v)
    THEN IF v.items = <<>> THEN <<EmptyString>> ELSE PiecesOfAll(v.items)
    ELSE <<Str(v.code)>>
PiecesOfAll(items) ==
    IF items = <<>> THEN <<>> ELSE Pieces(Head(items)) \o PiecesOfAll(Tail(items))

\* args.toString().split(',')
ArgsAsStrings(args) == Pieces(Arr(args))

\* list.includes(v)
Includes(list, v) == \E k \in 1..Len(list) : list[k] = v

\* arr.filter(v => !list.includes(v))
RECURSIVE FilterNotIn(_, _)
FilterNotIn(arr, list) ==
    IF arr = <<>> THEN <<>>
    ELSE IF Includes(list, Head(arr)) THEN FilterNotIn(Tail(arr), list)
         ELSE <<Head(arr)>> \o FilterNotIn(Tail(arr), list)

PuInit ==
    /\ puPhase = "idle"
    /\ puOrig = <<>>
    /\ puArgs = <<>>
    /\ puArr = <<>>

\* pull(arr, ...args): pulled is computed, arr emptied and refilled from it
Pull(arr, args) ==
    /\ puPhase = "idle"
    /\ puPhase' = "done"
    /\ puOrig' = arr
    /\ puArgs' = args
    /\ puArr' = <<>> \o FilterNotIn(arr, ArgsAsStrings(args))
    /\ UNCHANGED puOthers

PuValues == Nums \cup {Str(k) : k \in LetterCodes}

\* the values to pull, passed as separate arguments or as one array
PuArgLists ==
    (SeqsUpTo(PuValues, PuMaxArgs) \ {<<>>})
        \cup {<<Arr(s)>> : s \in SeqsUpTo(PuValues, PuMaxArgs) \ {<<>>}}

PuNext ==
    \E arr \in SeqsUpTo(PuValues, PuMaxLen), args \in PuArgLists : Pull(arr, args)

----------------------------------------------------------------------------
(* curry: one partial application called several times *)

\* the arguments bound by curry.bind(null, fn, arity, ...args) after a call of
\* the bound function with the arguments new: bind copied them, a call leaves
\* them as they are
BoundArgsAccumulating(bound, new) == bound \o new
BoundArgsAfterCall(bound, new) == bound

CsInit ==
    /\ csPhase = "idle"
    /\ csArity = 0
    /\ csCaptured = <<>>
    /\ csOriginal = <<>>
    /\ csCount = 0
    /\ csLastNew = <<>>
    /\ csLastArgs = <<>>
    /\ csCalls = <<>>

\* curry(fn, arity, ...args) with too few arguments: a partial application
\* is returned and held
CurryPartial(arity, args) ==
    /\ csPhase = "idle"
    /\ ~EnoughArgs(arity, args)
    /\ csPhase' = "held"
    /\ csArity' = arity
    /\ csCaptured' = args
    /\ csOriginal' = args
    /\ UNCHANGED <<csCount, csLastNew, csLastArgs, csCalls>>
    /\ UNCHANGED csOthers

\* the partial application held is called with the arguments new: curry runs
\* with the bound arguments followed by new, and calls fn or binds again
CallHeldPartial(new) ==
    /\ csPhase = "held"
    /\ csCount < MaxApplications
    /\ csCount' = csCount + 1
    /\ csLastNew' = new
    /\ LET args == BoundCallArgs(csCaptured, new)
       IN  /\ csLastArgs' = args
           /\ csCalls' = IF EnoughArgs(csArity, args) THEN Append(csCalls, args)
                         ELSE csCalls
    /\ csCaptured' = BoundArgsAfterCall(csCaptured, new)
    /\ UNCHANGED <<csPhase, csArity, csOriginal>>
    /\ UNCHANGED csOthers

CsNext ==
    \/ \E arity \in 0..MaxArity, args \in ArgLists : CurryPartial(arity, args)
    \/ \E new \in ArgLists : CallHeldPartial(new)

----------------------------------------------------------------------------
(* Specifications: one per combinator, the others left untouched *)

Init ==
    /\ CfInit /\ CuInit /\ PrInit /\ ChInit /\ SeInit
    /\ FlInit /\ PuInit /\ CsInit

SpecCompose == Init /\ [][CfNext]_vars

SpecCurry == Init /\ [][CuNext]_vars

SpecPromisify == Init /\ [][PrNext]_vars

SpecChain == Init /\ [][ChNext]_vars

SpecSeries == Init /\ [][SeNext]_vars

SpecFlatten == Init /\ [][FlNext]_vars

SpecPull == Init /\ [][PuNext]_vars

SpecCurryReuse == Init /\ [][CsNext]_vars

\* a caller that uses one of the two asynchronous chains
ChainUsed == sePhase = "idle" /\ ChNext
SeriesUsed == chPhase = "idle" /\ SeNext

SpecAsync == Init /\ [][ChainUsed \/ SeriesUsed]_vars

----------------------------------------------------------------------------
(* compose / pipeFunctions: properties *)

RECURSIVE Reverse(_)
Reverse(s) == IF s = <<>> THEN <<>> ELSE Append(Reverse(Tail(s)), Head(s))

\* f1(f2(...fn(...args)))
RECURSIVE NestedRight(_, _)
NestedRight(fns, args) ==
    IF Len(fns) = 1 THEN Term(fns[1], args)
    ELSE Term(fns[1], <<NestedRight(Tail(fns), args)>>)

\* the functions of order called one after the other, the first with all of
\* args and each later one with the single value returned by the one before
RECURSIVE CallChain(_, _)
CallChain(order, args) ==
    IF order = <<>> THEN <<>>
    ELSE <<[fn |-> Head(order), args |-> args]>>
             \o CallChain(Tail(order), <<Term(Head(order), args)>>)

\* C1: for a non-empty list f1..fn, compose returns a callable, and calling it
\* with args returns f1(f2(...fn(...args))): the rightmost function is called
\* once with all of args, every other function once with the one value
\* returned by the function to its right.
ComposeRightToLeft ==
    (cfOp = "compose" /\ cfFns # <<>>) =>
        /\ cfOut.kind # "TypeError"
        /\ cfResult # NoValue =>
              /\ cfResult = NestedRight(cfFns, cfArgs)
              /\ cfCalls = CallChain(Reverse(cfFns), cfArgs)

ComposeRightToLeftWitness ==
    /\ cfOp = "compose"
    /\ cfFns = <<1, 2, 3>>
    /\ Len(cfArgs) = 2
    /\ cfResult # NoValue

\* C2: for a non-empty list f1..fn, pipeFunctions returns a callable, and
\* calling it with args returns fn(...f2(f1(...args))): the leftmost function is
\* called once with all of args, each later one once, left to right, with the
\* value returned by the one before it.
PipeLeftToRight ==
    (cfOp = "pipeFunctions" /\ cfFns # <<>>) =>
        /\ cfOut.kind # "TypeError"
        /\ cfResult # NoValue =>
              /\ cfResult = NestedRight(Reverse(cfFns), cfArgs)
              /\ cfCalls = CallChain(cfFns, cfArgs)

PipeLeftToRightWitness ==
    /\ cfOp = "pipeFunctions"
    /\ cfFns = <<1, 2, 3>>
    /\ Len(cfArgs) = 2
    /\ cfResult # NoValue

\* C3: compose and pipeFunctions called with no function fail with an error,
\* return no callable, and no supplied function is ever called.
EmptyListFails ==
    (cfOp # "none" /\ cfFns = <<>>) =>
        /\ cfOut = TypeError
        /\ cfCalls = <<>>
        /\ cfResult = NoValue

EmptyListFailsWitness ==
    /\ cfOp = "pipeFunctions"
    /\ cfFns = <<>>
    /\ cfOut.kind = "TypeError"

----------------------------------------------------------------------------
(* curry: properties *)

SuppliedArgs == Concat(cuGroups)

\* C4: however the arguments a1..a_arity are split into successive calls
\* (one per call, several per call, all in one call, calls without arguments
\* in between), the chain ends exactly when arity arguments have been supplied,
\* with the result fn(a1, ..., a_arity).
CurryGroupingIrrelevant ==
    cuPhase # "idle" =>
        /\ cuPhase = "done" <=> Len(SuppliedArgs) >= cuArity
        /\ (cuPhase = "done" /\ Len(SuppliedArgs) = cuArity) =>
              cuResult = Term(CurriedFn, SuppliedArgs)

CurryGroupingIrrelevantWitness ==
    /\ cuPhase = "done"
    /\ cuArity = 3
    /\ Len(SuppliedArgs) = 3
    /\ \E i \in 1..Len(cuGroups) : i > 1 /\ cuGroups[i] = <<>>
    /\ \E i \in 1..Len(cuGroups) : Len(cuGroups[i]) = 2
    /\ cuResult = Term(CurriedFn, <<Atom(1), Atom(2), Atom(1)>>)

\* C5: along a chain of calls the accumulated argument list only grows, by
\* the new arguments appended in order; fn is not called while fewer than arity
\* arguments are accumulated, and is called exactly once, with the whole
\* accumulated list (excess arguments included), by the first call at which
\* the accumulated length is at least arity.
CurryAccumulates ==
    /\ [](cuPhase = "partial" => (Len(cuArgs) < cuArity /\ cuCalls = <<>>))
    /\ [](cuPhase = "done" => (Len(cuArgs) >= cuArity /\ cuCalls = <<cuArgs>>))
    /\ [][cuPhase = "partial" =>
            /\ cuArgs' = cuArgs \o cuGroups'[Len(cuGroups')]
            /\ Len(cuCalls') = IF Len(cuArgs') >= cuArity THEN 1 ELSE 0]_vars

CurryAccumulatesWitness ==
    /\ cuPhase = "done"
    /\ cuArity = 2
    /\ Len(cuGroups) = 3
    /\ Len(cuArgs) = 3
    /\ cuCalls = <<cuArgs>>

----------------------------------------------------------------------------
(* promisify: properties *)

\* a step in which the completion callback is invoked while the promise is
\* still pending
FirstCompletion == prCbCount' = prCbCount + 1 /\ prState = "pending"

\* C6 as claimed: an invocation of the completion callback with an error that
\* is neither null nor absent, the promise still pending, rejects the promise
\* with that error.
NonNullErrorRejects ==
    [][(FirstCompletion /\ prLastCb'.err \notin {"null", "undefined"}) =>
          (prState' = "rejected" /\ prValue' = prLastCb'.err)]_vars

\* C6 as amended: an invocation of the completion callback with a truthy
\* error, the promise still pending, rejects the promise with that error; with
\* any falsy error (null, undefined, false, 0, '') it fulfils the promise.
TruthyErrorRejects ==
    [][FirstCompletion =>
          /\ ToBoolean(prLastCb'.err) =>
                (prState' = "rejected" /\ prValue' = prLastCb'.err)
          /\ ~ToBoolean(prLastCb'.err) => prState' = "fulfilled"]_vars

TruthyErrorRejectsWitness ==
    /\ prCbCount = 1
    /\ prLastCb.err = "E1"
    /\ prPhase = "returned"
    /\ prState = "rejected"
    /\ prValue = "E1"

\* C7: fn is called once, with the provided arguments followed by one
\* completion callback; an invocation of that callback with a null or absent
\* error, the promise still pending, fulfils the promise with the callback's
\* second argument.
NullErrorFulfils ==
    /\ [](prPhase # "idle" => prFnCalls = <<prArgs \o <<CompletionCallback>> >>)
    /\ [][(FirstCompletion /\ prLastCb'.err \in {"null", "undefined"}) =>
            (prState' = "fulfilled" /\ prValue' = prLastCb'.result)]_vars

NullErrorFulfilsWitness ==
    /\ prCbCount = 1
    /\ prLastCb = [err |-> "null", result |-> "R1"]
    /\ Len(prArgs) = 2
    /\ prState = "fulfilled"
    /\ prValue = "R1"

\* C8: the promise leaves pending at most once: once fulfilled or rejected,
\* its state and value never change, whatever further invocations of the
\* completion callback follow.
SettlesOnce ==
    [][prState # "pending" => (prState' = prState /\ prValue' = prValue)]_vars

SettlesOnceWitness ==
    /\ prCbCount = 2
    /\ prState = "fulfilled"
    /\ prValue = "R1"
    /\ prLastCb = [err |-> "E1", result |-> "R2"]

----------------------------------------------------------------------------
(* chainAsync: properties *)

Steps == 0..(chLen - 1)

Started(i) == chStartedBy[i] # NotStarted

\* the steps started that have not yet called their continuation
InFlight == {i \in Steps : Started(i) /\ chInvoked[i] = 0}

\* no step has called its continuation more than once
AtMostOnce == \A i \in Steps : chInvoked[i] <= 1

\* at most one step in flight, and step i + 1 started only by a call of the
\* continuation made by step i
OneAtATime ==
    /\ Cardinality(InFlight) <= 1
    /\ \A i \in Steps : (i > 0 /\ Started(i)) =>
          (chStartedBy[i] = i - 1 /\ chInvoked[i - 1] >= 1)

\* C9: when every step calls the continuation it received (once), the steps
\* run in list order, each exactly once, and step i + 1 is not started before
\* step i has called its continuation.
ChainRunsInOrder ==
    (chPhase # "idle" /\ AtMostOnce) =>
        /\ chStartLog = [k \in 1..Len(chStartLog) |-> k - 1]
        /\ \A i \in Steps : (i > 0 /\ Started(i)) => chInvoked[i - 1] = 1
        /\ chLen > 0 => chStartedBy[0] = ChainCaller
        /\ (\A i \in Steps : chInvoked[i] = 1) =>
              chStartLog = [k \in 1..chLen |-> k - 1]

ChainRunsInOrderWitness ==
    /\ chLen = 3
    /\ \A i \in Steps : chInvoked[i] = 1
    /\ chStartLog = <<0, 1, 2>>
    /\ chRoot = "none"

\* C10 as claimed: whatever the steps do with their continuation, at most
\* one step is in flight and step i + 1 is started only by step i calling its
\* continuation.
OneAtATimeWhateverStepsDo == chPhase # "idle" => OneAtATime

\* C10 as amended: as long as no step has called its continuation more than
\* once, at most one step is in flight and step i + 1 is started only by step
\* i calling its continuation.
OneAtATimeIfCalledOnce == (chPhase # "idle" /\ AtMostOnce) => OneAtATime

OneAtATimeIfCalledOnceWitness ==
    /\ chLen = 3
    /\ chStartLog = <<0, 1, 2>>
    /\ chInvoked = [i \in 0..2 |-> IF i = 2 THEN 0 ELSE 1]
    /\ chStartedBy = [i \in 0..2 |-> i - 1]
    /\ InFlight = {2}

\* a step that was started and has not called its continuation stalls the
\* chain at its index: no later step is started, curr stays behind it, and
\* next has thrown no TypeError
StalledAt(i) ==
    /\ \A j \in Steps : j > i => ~Started(j)
    /\ chCurr = i + 1
    /\ chErrors = 0

\* C11 as claimed: while step i has not called its continuation, no step
\* after i is started and chainAsync raises no error, whatever the other
\* steps do.
SilentStepStalls ==
    chPhase # "idle" =>
        \A i \in Steps : (Started(i) /\ chInvoked[i] = 0) => StalledAt(i)

\* C11 as amended: provided no step has called its continuation more than
\* once, while step i has not called its continuation no step after i is
\* started and chainAsync raises no error.
SilentStepStallsIfCalledOnce ==
    (chPhase # "idle" /\ AtMostOnce) =>
        \A i \in Steps : (Started(i) /\ chInvoked[i] = 0) => StalledAt(i)

SilentStepStallsIfCalledOnceWitness ==
    /\ chLen = 3
    /\ chPhase = "returned"
    /\ chRoot = "none"
    /\ chInvoked = [i \in 0..2 |-> IF i = 0 THEN 1 ELSE 0]
    /\ chStartLog = <<0, 1>>

\* C18 as claimed: next only ever reads fns at an index in 0..len(fns)-1, and
\* a call of next beyond the last step raises no error.
NextStaysInRange ==
    chPhase # "idle" => (chCurr <= chLen /\ chErrors = 0)

----------------------------------------------------------------------------
(* runPromisesInSeries: properties *)

\* C12: the functions are called in list order, function i + 1 only once the
\* deferred result of function i has fulfilled, and with the value it
\* fulfilled with.
SeriesInOrder ==
    sePhase # "idle" =>
        /\ \A k \in 1..Len(seCalls) : seCalls[k].fn = k
        /\ \A k \in 2..Len(seCalls) :
              /\ seDeferred[k - 1].state = "fulfilled"
              /\ seCalls[k].arg = seDeferred[k - 1].value

SeriesInOrderWitness ==
    /\ seLen = 3
    /\ Len(seCalls) = 3
    /\ seCalls[2].arg = 2
    /\ seCalls[3].arg = 1

\* no rejection is still on its way down the chain
Quiescent ==
    \A k \in 1..seLen :
        ~(sePromises[k].state = "rejected" /\ sePromises[k + 1].state = "pending")

\* C13: once the deferred result of function i has failed with e, no function
\* after i is called, and the promise returned never fulfils: it fails with
\* exactly e as soon as the rejection has passed down the chain.
SeriesFailsFast ==
    sePhase # "idle" =>
        \A i \in 1..seLen : seDeferred[i].state = "rejected" =>
            /\ Len(seCalls) = i
            /\ Returned.state # "fulfilled"
            /\ Returned.state = "rejected" => Returned.value = seDeferred[i].value
            /\ Quiescent => Returned = Rejected(seDeferred[i].value)

SeriesFailsFastWitness ==
    /\ seLen = 3
    /\ seDeferred[2] = Rejected(-2)
    /\ seDeferred[3] = NotCalled
    /\ Returned = Rejected(-2)

\* C14: for a non-empty list, the promise returned fulfils only once the
\* deferred result of the last function has fulfilled, with its value; when
\* every deferred result has fulfilled it is fulfilled with that value.
SeriesFulfilsWithLast ==
    (sePhase # "idle" /\ seLen >= 1) =>
        /\ Returned.state = "fulfilled" => seDeferred[seLen] = Fulfilled(Returned.value)
        /\ (\A i \in 1..seLen : seDeferred[i].state = "fulfilled") =>
              Returned = Fulfilled(seDeferred[seLen].value)

SeriesFulfilsWithLastWitness ==
    /\ seLen = 3
    /\ seCalls = <<[fn |-> 1, arg |-> SeUndefined], [fn |-> 2, arg |-> 1], [fn |-> 3, arg |-> 2]>>
    /\ Returned = Fulfilled(3)

----------------------------------------------------------------------------
(* the asynchronous chains: properties *)

\* C15 as claimed: no exception of a step reaches the caller of chainAsync
\* or of runPromisesInSeries as a synchronous exception (stated for the runs
\* in which next itself has thrown no TypeError).
NoExceptionReachesCaller ==
    chErrors = 0 => (chPhase # "threw" /\ sePhase # "threw")

\* C15 as amended: no exception of a function of ps reaches the caller of
\* runPromisesInSeries; a function that throws e fails the promise made for
\* it with e.
SeriesNeverThrowsToCaller ==
    /\ sePhase # "threw"
    /\ sePhase # "idle" =>
          \A i \in 1..seLen : seDeferred[i].state = "threw" =>
              sePromises[i + 1] = Rejected(seDeferred[i].value)

SeriesNeverThrowsToCallerWitness ==
    /\ sePhase = "returned"
    /\ seLen = 2
    /\ seDeferred[2] = Threw(-1)
    /\ Returned = Rejected(-1)

----------------------------------------------------------------------------
(* flattenDepth: properties *)

\* the elements of items with nested arrays flattened up to depth levels
RECURSIVE FlattenedTo(_, _)
FlattenedTo(items, depth) ==
    IF items = <<>> THEN <<>>
    ELSE LET v == Head(items)
             first == IF IsArray(v) /\ depth >= 1
                      THEN FlattenedTo(v.items, depth - 1) ELSE <<v>>
         IN  first \o FlattenedTo(Tail(items), depth)

\* C16: flattenDepth(arr, depth) returns arr flattened up to depth, and by
\* one level when depth is omitted.
FlattenDepthReturnsFlattened ==
    flPhase = "done" =>
        flResult = Arr(FlattenedTo(flArr.items, DepthOrDefault(flDepth)))

----------------------------------------------------------------------------
(* pull: properties *)

\* the values named by the arguments: the elements of the one array passed,
\* or the arguments themselves
Specified(args) ==
    IF Len(args) = 1 /\ IsArray(args[1]) THEN args[1].items ELSE args

\* C17: after pull(arr, ...values) arr holds exactly its former elements that
\* are not among the values, in their former order, numbers as well as
\* strings, the values passed separately or as one array.
PullRemovesSpecified ==
    puPhase = "done" => puArr = FilterNotIn(puOrig, Specified(puArgs))

----------------------------------------------------------------------------
(* curry, one partial application called several times: properties *)

\* C19: a partial application is not changed by being called: each call
\* hands curry the arguments bound when the partial application was made
\* followed by that call's own arguments, and fn, when called, gets just those.
PartialUnchangedByCalls ==
    csPhase = "held" =>
        /\ csCaptured = csOriginal
        /\ csCount > 0 => csLastArgs = csOriginal \o csLastNew
        /\ \A k \in 1..Len(csCalls) :
              SubSeq(csCalls[k], 1, Len(csOriginal)) = csOriginal

PartialUnchangedByCallsWitness ==
    /\ csPhase = "held"
    /\ csArity = 2
    /\ csOriginal = <<Atom(1)>>
    /\ csCount = 3
    /\ csCalls = <<<<Atom(1), Atom(2)>>, <<Atom(1), Atom(1)>>>>
    /\ csLastNew = <<>>

====
